---- MODULE Spec2Model ----
(***************************************************************************)
(* Campaign engagement tracking and bulk dispatch of the phishing          *)
(* simulation platform: the tracking handlers of routes/tracking.py, the   *)
(* rate limiter of utils/security.py, the send request of                  *)
(* routes/campaigns.py and the dispatcher of services/email_service.py,    *)
(* over the tables of database/models.py.                                  *)
(*                                                                         *)
(* Every request handler and every dispatcher thread works on its own      *)
(* SQLAlchemy session: what it read stays cached in the session, what it   *)
(* changed reaches the tables at db.session.commit() and is dropped by     *)
(* db.session.rollback() or by the death of the process.                   *)
(***************************************************************************)
EXTENDS Integers, Sequences, FiniteSets, TLC

\* ---------------------------------------------------------------- bounds
\* CampaignTargets of the one campaign modelled; CampaignTarget i holds token i.
NumCT == 2
\* Tracking requests that can be in flight at once.
NumReq == 2
\* Send requests that can be in flight at once (each may start one thread).
NumSend == 2
\* Process crashes (restarts) in one behaviour.
MaxCrashes == 1
\* Budgets of the trigger rate limiter, scaled down from limit=30 / 20 / 10
\* (routes/tracking.py lines 17, 68, 128) so that exhaustion is reached.
OpenLimit == 2
ClickLimit == 1
SubmitLimit == 1
\* MAX_EMAILS_PER_HOUR, scaled down from the default 100 of config.py line 27.
MaxEmailsPerHour == 1
\* Passes of dispatcher loops that raise, counted by the bounced events they
\* leave in sessions and on record.
MaxRaises == 1

\* Calls of the analytics page in one behaviour.
MaxReports == 2
\* Events of one CampaignTarget in an export.
MaxLog == 3
\* Seconds of the timestamps in an export.
MaxSec == 2
\* Addresses (rows of the targets table) the enrolment requests name.
NumTargets == 2
\* Enrolment requests that can be in flight at once.
NumEnrol == 2
\* Rows of campaign_targets the enrolment requests may create.
MaxRows == 3
\* Values uuid.uuid4().hex can take.
NumTok == 3
\* CampaignTargets of a campaign whose dispatcher run is followed by its
\* counters alone; at least CommitEvery, so that the loop commits.
MaxTargets == 10

\* ------------------------------------------------------- program constants
\* "Commit progress every 10 emails"
CommitEvery == 10

CT == 1..NumCT
Req == 1..NumReq
SendReq == 1..NumSend
Run == 1..NumSend

\* The token that was never issued; unique_token of CampaignTarget i is i.
NoToken == 0
Tokens == {NoToken} \cup CT

Kinds == {"open", "click", "submit"}
Statuses == {"pending", "sent", "opened", "clicked", "submitted"}
EventTypes == {"sent", "opened", "clicked", "submitted", "bounced"}
CampaignStatuses == {"draft", "active", "paused", "completed"}

\* CAMPAIGN_CONSENT_REQUIRED, default 'true'
ConsentRequired == TRUE

VARIABLES
    campaign,   \* the campaigns row: [status, consent_verified]
    ctStatus,   \* campaign_targets.status, per CampaignTarget
    sentAt,     \* campaign_targets.sent_at: 0 is NULL, n the n-th value written
    events,     \* email_events: number of rows per CampaignTarget and event_type
    mailed,     \* mails the mail capability accepted, per CampaignTarget
    rl,         \* the rate-limit keys of the counter store, per trigger kind
    req,        \* the tracking request handlers in flight
    sreq,       \* the send_campaign request handlers in flight
    run,        \* the dispatcher threads
    crashes,    \* process crashes so far
    stored,     \* what the submit handlers persisted besides the event row and
                \* the status: the metadata of their events
    report,     \* the analytics handler: calls made, metrics last returned
    targets,    \* generate_csv_export: the CampaignTargets it has read, each
                \* with its status and its events (type and timestamp)
    csv_content, \* generate_csv_export: the rows it has written
    people,     \* the targets table: the ids of its rows
    assoc,      \* the campaign_targets table as the enrolment handlers build it:
                \* rows [campaign_id, target_id, unique_token] in id order
    enrol,      \* the manage_targets request handlers in flight
    template,   \* the templates row of the campaign: whether it was saved, and
                \* the {{name}} placeholders of its subject and its html_content
    outbox,     \* the mails rendered from the template and handed to the mail
                \* capability: the placeholders left in subject and body
    counts,     \* the locals of send_campaign_emails in a run over a long list:
                \* total_targets, the passes made, success_count, error_count
    removal     \* the delete_campaign request handler, and what it answered

\* The tables of tracking and dispatch with their handlers and threads.
core == <<campaign, ctStatus, sentAt, events, mailed, rl, req, sreq, run, crashes, stored>>

\* What the administrator's pages and the long runs of the dispatcher work
\* with, apart from the tables above.
analytics == <<report>>
export == <<targets, csv_content>>
enrolment == <<people, assoc, enrol>>
library == <<template, outbox>>
\* The counters of a dispatcher run over a list of any length.
counting == <<counts>>
\* The deletion of the campaign.
deletion == <<removal>>
admin == <<analytics, export, enrolment, library, counting, deletion>>

vars == <<campaign, ctStatus, sentAt, events, mailed, rl, req, sreq, run, crashes,
          stored, admin>>

\* ------------------------------------------------------------ pure helpers

\* A lookup that returns the first CampaignTarget for every issued token.
ResolveFirst(tok) == IF tok \in CT THEN 1 ELSE 0

\* CampaignTarget.query.filter_by(unique_token=token).first(); 0 is None
Resolve(tok) == IF tok \in CT THEN tok ELSE 0

\* event_type each handler records
EventOf(kind) ==
    CASE kind = "open" -> "opened"
      [] kind = "click" -> "clicked"
      [] kind = "submit" -> "submitted"

\* limit= argument each handler passes to rate_limit_check
LimitOf(kind) ==
    CASE kind = "open" -> OpenLimit
      [] kind = "click" -> ClickLimit
      [] kind = "submit" -> SubmitLimit

\* The position of a status in pending < sent < opened < clicked < submitted.
Rank(s) ==
    CASE s = "pending" -> 0
      [] s = "sent" -> 1
      [] s = "opened" -> 2
      [] s = "clicked" -> 3
      [] s = "submitted" -> 4

\* track_open with its status test dropped.
OpenStatusAlways(s) == "opened"

\* "Update campaign target status" of track_open
OpenStatus(s) == IF s = "sent" THEN "opened" ELSE s

\* track_click with its status test dropped.
ClickStatusAlways(s) == "clicked"

\* "Update campaign target status" of track_click
ClickStatus(s) == IF s \in {"sent", "opened"} THEN "clicked" ELSE s

\* "Update campaign target status" of track_submission
SubmitStatus(s) == "submitted"

\* The status a handler of this kind assigns to the CampaignTarget it loaded
\* with status s.
NewStatus(kind, s) ==
    CASE kind = "open" -> OpenStatus(s)
      [] kind = "click" -> ClickStatus(s)
      [] kind = "submit" -> SubmitStatus(s)

\* -------------------------------------------------------------- the state

\* request.form of a request that carries no form fields
NoForm == "none"

\* The form payloads a submit request may carry.
Forms == {NoForm, "user=alice&password=secret", "user=bob&password=hunter2"}

\* No analytics call made yet.
NoMetrics == [total_targets |-> 0, emails_sent |-> 0, unique_opens |-> 0,
              unique_clicks |-> 0, unique_submissions |-> 0, open_rate |-> 0,
              click_rate |-> 0, submission_rate |-> 0, delivery_rate |-> 0]

NoReport == [calls |-> 0, metrics |-> NoMetrics]

\* A manage_targets handler: the rows of the file, the row it is at, the
\* Target and CampaignTarget rows its session holds.
IdleEnrol == [pc |-> "idle", list |-> <<>>, i |-> 0, newT |-> {}, rows |-> <<>>,
              resp |-> "none"]

\* No template saved yet.
NoTemplate == [saved |-> FALSE, subject |-> {}, html_content |-> {}]

\* send_campaign_emails not entered.
NoCounts == [pc |-> "none", total_targets |-> 0, i |-> 0, success_count |-> 0,
             error_count |-> 0]

\* delete_campaign not called.
NoRemoval == [pc |-> "idle", resp |-> "none"]

InitAdmin ==
    /\ report = NoReport
    /\ targets = [c \in CT |-> [status |-> "pending", events |-> <<>>]]
    /\ csv_content = <<>>
    /\ people = {}
    /\ assoc = <<>>
    /\ enrol = [e \in 1..NumEnrol |-> IdleEnrol]
    /\ template = NoTemplate
    /\ outbox = {}
    /\ counts = NoCounts
    /\ removal = NoRemoval

IdleReq == [pc |-> "idle", kind |-> "open", tok |-> NoToken, seen |-> FALSE,
            loaded |-> "none", resp |-> "none", form |-> NoForm]

\* started: whether queue_campaign_emails started a thread for the request.
IdleSend == [pc |-> "idle", resp |-> "none", started |-> FALSE]

NoRun == [pc |-> "none", list |-> <<>>, i |-> 0, dirty |-> {}, bounced |-> {},
          success |-> 0, errors |-> 0, sent_count |-> 0, hourUp |-> FALSE]

NoKey == [n |-> 0, ttl |-> FALSE]

NoEvents == [t \in EventTypes |-> 0]

\* A campaign freshly created (draft) with NumCT targets attached (pending).
Init ==
    /\ campaign \in [status : {"draft"}, consent_verified : BOOLEAN]
    /\ ctStatus = [c \in CT |-> "pending"]
    /\ sentAt = [c \in CT |-> 0]
    /\ events = [c \in CT |-> NoEvents]
    /\ mailed = [c \in CT |-> 0]
    /\ rl = [k \in Kinds |-> NoKey]
    /\ req = [r \in Req |-> IdleReq]
    /\ sreq = [s \in SendReq |-> IdleSend]
    /\ run = [u \in Run |-> NoRun]
    /\ crashes = 0
    /\ stored = {}
    /\ InitAdmin

\* ------------------------------------------------- the trigger rate limiter

\* rate_limit_check, first half: current = r.get(key); a key at or over the
\* limit rejects the request, otherwise the handler goes on to count it.
\* The handler that calls it is entered here, with its kind and its token.
RateGet(r, k, t) ==
    /\ req[r].pc \in {"idle", "done"}
    /\ LET cur == rl[k].n IN
       IF cur > 0 /\ cur >= LimitOf(k)
       THEN req' = [req EXCEPT ![r] =
                [IdleReq EXCEPT !.pc = "limited", !.kind = k, !.tok = t]]
       ELSE req' = [req EXCEPT ![r] =
                [IdleReq EXCEPT !.pc = "bump", !.kind = k, !.tok = t, !.seen = (cur > 0)]]
    /\ UNCHANGED <<campaign, ctStatus, sentAt, events, mailed, rl, sreq, run, crashes, stored, admin>>

\* A rejection that records the trigger all the same.
RejectRecorded(r) ==
    /\ req[r].pc = "limited"
    /\ req' = [req EXCEPT ![r] = [IdleReq EXCEPT !.pc = "done", !.resp = "429"]]
    /\ events' = [c \in CT |->
            IF c = Resolve(req[r].tok)
            THEN [events[c] EXCEPT ![EventOf(req[r].kind)] = @ + 1]
            ELSE events[c]]
    /\ UNCHANGED <<campaign, ctStatus, sentAt, mailed, rl, sreq, run, crashes, stored, admin>>

\* rate_limit_check returned False: "return '', 429" and its like.
Reject(r) ==
    /\ req[r].pc = "limited"
    /\ req' = [req EXCEPT ![r] = [IdleReq EXCEPT !.pc = "done", !.resp = "429"]]
    /\ UNCHANGED <<campaign, ctStatus, sentAt, events, mailed, rl, sreq, run, crashes, stored, admin>>

\* A limiter that refuses what it cannot count.
RateFallbackRefuses(k) == FALSE

\* "except: ... return True": what rate_limit_check returns when redis raises.
RateFallback(k) == TRUE

\* rate_limit_check when the counter store cannot be reached: redis raises at
\* the get and the bare except answers for the limiter; the handler is
\* entered here and goes on, or returns 429, with what it was told.
RateUnavailable(r, k, t) ==
    /\ req[r].pc \in {"idle", "done"}
    /\ req' = [req EXCEPT ![r] =
            [IdleReq EXCEPT !.pc = IF RateFallback(k) THEN "lookup" ELSE "limited",
                            !.kind = k, !.tok = t]]
    /\ UNCHANGED <<campaign, ctStatus, sentAt, events, mailed, rl, sreq, run, crashes, stored, admin>>

\* The key after the second half of rate_limit_check: r.incr(key) when the
\* key was there at the get (INCR of a key gone since creates it at 1, with
\* no expiry), r.set(key, 1, ex=window) when it was not.
Bumped(key, seen) ==
    IF seen THEN [n |-> key.n + 1, ttl |-> key.ttl] ELSE [n |-> 1, ttl |-> TRUE]

\* rate_limit_check, second half; it returns True.
RateBump(r) ==
    /\ req[r].pc = "bump"
    /\ rl' = [rl EXCEPT ![req[r].kind] = Bumped(@, req[r].seen)]
    /\ req' = [req EXCEPT ![r].pc = "lookup", ![r].seen = FALSE]
    /\ UNCHANGED <<campaign, ctStatus, sentAt, events, mailed, sreq, run, crashes, stored, admin>>

\* The store drops a key whose window (ex=window) has run out.
Expire(k) ==
    /\ rl[k].n > 0
    /\ rl[k].ttl
    /\ rl' = [rl EXCEPT ![k] = NoKey]
    /\ UNCHANGED <<campaign, ctStatus, sentAt, events, mailed, req, sreq, run, crashes, stored, admin>>

\* ------------------------------------------------------ tracking handlers

\* The existence check finding nothing.
HasEventNever(c, t) == FALSE

\* EmailEvent.query.filter_by(campaign_target_id=..., event_type=...).first()
HasEvent(c, t) == events[c][t] > 0

\* The status write left out of the handler's transaction.
StatusWriteLost(kind, loaded, current) == current

\* The status column after the handler's commit: the session writes the
\* attribute only when the handler changed it from the value it had loaded.
PersistedStatus(kind, loaded, current) ==
    IF NewStatus(kind, loaded) # loaded THEN NewStatus(kind, loaded) ELSE current

\* track_submission entered with a form payload, in a deployment whose counter
\* store cannot be reached.
PostForm(r, t, f) ==
    /\ req[r].pc \in {"idle", "done"}
    /\ req' = [req EXCEPT ![r] =
            [IdleReq EXCEPT !.pc = "lookup", !.kind = "submit", !.tok = t, !.form = f]]
    /\ UNCHANGED <<campaign, ctStatus, sentAt, events, mailed, rl, sreq, run, crashes, stored, admin>>

\* A submitted event that keeps the payload.
SubmitMetaKept(c, form) ==
    [table |-> "email_events", ref |-> c, data |-> form]

\* metadata= of the submitted event: 'form_data_received': True beside the
\* time and a hash of the User-Agent header; request.form is not read.
SubmitMeta(c, form) ==
    [table |-> "email_events", ref |-> c, data |-> "form_data_received"]

\* log_audit('PHISHING_SUBMITTED', 'campaign_target', campaign_target.id, ...)
SubmitAudit(c, form) ==
    [table |-> "audit_logs", ref |-> c, data |-> "PHISHING_SUBMITTED"]

\* "Find the campaign target by token": 404 when there is none, else the
\* CampaignTarget is loaded into the session.
Lookup(r) ==
    /\ req[r].pc = "lookup"
    /\ LET c == Resolve(req[r].tok) IN
       IF c = 0
       THEN req' = [req EXCEPT ![r] = [IdleReq EXCEPT !.pc = "done", !.resp = "404"]]
       ELSE req' = [req EXCEPT ![r].pc = "check", ![r].loaded = ctStatus[c]]
    /\ UNCHANGED <<campaign, ctStatus, sentAt, events, mailed, rl, sreq, run, crashes, stored, admin>>

\* "Check if we already tracked ..." : with an event of the kind on record
\* track_open returns the pixel, track_click and track_submission skip the
\* insert.
CheckExisting(r) ==
    /\ req[r].pc = "check"
    /\ LET c == Resolve(req[r].tok) IN
       IF HasEvent(c, EventOf(req[r].kind))
       THEN IF req[r].kind = "open"
            THEN req' = [req EXCEPT ![r] = [IdleReq EXCEPT !.pc = "done", !.resp = "ok"]]
            ELSE req' = [req EXCEPT ![r].pc = "after", ![r].loaded = "none"]
       ELSE req' = [req EXCEPT ![r].pc = "commit"]
    /\ UNCHANGED <<campaign, ctStatus, sentAt, events, mailed, rl, sreq, run, crashes, stored, admin>>

\* db.session.add(event), the status assignment and db.session.commit():
\* one transaction. track_open then returns the pixel.
Commit(r) ==
    /\ req[r].pc = "commit"
    /\ LET c == Resolve(req[r].tok)
           k == req[r].kind IN
       /\ events' = [events EXCEPT ![c][EventOf(k)] = @ + 1]
       /\ ctStatus' = [ctStatus EXCEPT ![c] = PersistedStatus(k, req[r].loaded, @)]
       /\ stored' = IF k = "submit"
                    THEN stored \cup {SubmitMeta(c, req[r].form)}
                    ELSE stored
       /\ IF k = "open"
          THEN req' = [req EXCEPT ![r] = [IdleReq EXCEPT !.pc = "done", !.resp = "ok"]]
          ELSE req' = [req EXCEPT ![r].pc = "after", ![r].loaded = "none"]
    /\ UNCHANGED <<campaign, sentAt, mailed, rl, sreq, run, crashes, admin>>

\* After the tracking part: track_click renders the training page,
\* track_submission writes its audit row and returns the acknowledgment.
Respond(r) ==
    /\ req[r].pc = "after"
    /\ req' = [req EXCEPT ![r] = [IdleReq EXCEPT !.pc = "done", !.resp = "ok"]]
    /\ stored' = IF req[r].kind = "submit"
                 THEN stored \cup {SubmitAudit(Resolve(req[r].tok), req[r].form)}
                 ELSE stored
    /\ UNCHANGED <<campaign, ctStatus, sentAt, events, mailed, rl, sreq, run, crashes, admin>>

\* "except Exception": a database error at any step past the rate limiter;
\* db.session.rollback() drops what the session holds, the answer is 500.
Fail(r) ==
    /\ req[r].pc \in {"lookup", "check", "commit", "after"}
    /\ req' = [req EXCEPT ![r] = [IdleReq EXCEPT !.pc = "done", !.resp = "500"]]
    /\ UNCHANGED <<campaign, ctStatus, sentAt, events, mailed, rl, sreq, run, crashes, stored, admin>>

\* ------------------------------------------------------- the send request

\* CampaignTarget.query.filter_by(campaign_id=id).count()
TargetCount == Cardinality(CT)

\* send_campaign up to its try block: the campaign row is read and the three
\* preconditions are tested; a failed one flashes a message and redirects.
SendCheck(s) ==
    /\ sreq[s].pc \in {"idle", "done"}
    /\ IF \/ campaign.status # "draft"
          \/ TargetCount = 0
          \/ (ConsentRequired /\ ~campaign.consent_verified)
       THEN sreq' = [sreq EXCEPT ![s] = [IdleSend EXCEPT !.pc = "done",
                                                          !.resp = "rejected"]]
       ELSE sreq' = [sreq EXCEPT ![s] = [IdleSend EXCEPT !.pc = "queue"]]
    /\ UNCHANGED <<campaign, ctStatus, sentAt, events, mailed, rl, req, run, crashes, stored, admin>>

\* queue_campaign_emails: a daemon thread is started on
\* EmailSender.send_campaign_emails; the request goes on.
SendQueue(s) ==
    /\ sreq[s].pc = "queue"
    /\ \E u \in Run :
        /\ run[u].pc = "none"
        /\ \A v \in Run : v < u => run[v].pc # "none"
        /\ run' = [run EXCEPT ![u] = [NoRun EXCEPT !.pc = "queued"]]
    /\ sreq' = [sreq EXCEPT ![s].pc = "commit", ![s].started = TRUE]
    /\ UNCHANGED <<campaign, ctStatus, sentAt, events, mailed, rl, req, crashes, stored, admin>>

\* queue_campaign_emails, lines 268-270: creating or starting the thread
\* raises, the function logs the error and returns False; send_campaign does
\* not look at what it returns and goes on.
SendQueueFail(s) ==
    /\ sreq[s].pc = "queue"
    /\ sreq' = [sreq EXCEPT ![s].pc = "commit"]
    /\ UNCHANGED <<campaign, ctStatus, sentAt, events, mailed, rl, req, run, crashes, stored, admin>>

\* campaign.status = 'active'; started_at; db.session.commit()
SendCommit(s) ==
    /\ sreq[s].pc = "commit"
    /\ campaign' = [campaign EXCEPT !.status = "active"]
    /\ sreq' = [sreq EXCEPT ![s].pc = "done", ![s].resp = "ok"]
    /\ UNCHANGED <<ctStatus, sentAt, events, mailed, rl, req, run, crashes, stored, admin>>

\* "except Exception" of send_campaign: the commit fails and is rolled back;
\* the thread already started is not stopped.
SendFail(s) ==
    /\ sreq[s].pc = "commit"
    /\ sreq' = [sreq EXCEPT ![s].pc = "done", ![s].resp = "error"]
    /\ UNCHANGED <<campaign, ctStatus, sentAt, events, mailed, rl, req, run, crashes, stored, admin>>

\* ---------------------------------------------------------- the dispatcher

\* The CampaignTargets with status 'pending', in id order, from index c on.
RECURSIVE PendingFrom(_)
PendingFrom(c) ==
    IF c > NumCT THEN <<>>
    ELSE IF ctStatus[c] = "pending" THEN <<c>> \o PendingFrom(c + 1)
    ELSE PendingFrom(c + 1)

\* CampaignTarget.query.filter_by(campaign_id=campaign_id, status='pending')
PendingList == PendingFrom(1)

\* send_campaign_emails up to the loop: the pending targets are read once.
RunStart(u) ==
    /\ run[u].pc = "queued"
    /\ run' = [run EXCEPT ![u].list = PendingList, ![u].i = 1,
                          ![u].pc = IF PendingList = <<>> THEN "final" ELSE "loop"]
    /\ UNCHANGED <<campaign, ctStatus, sentAt, events, mailed, rl, req, sreq, crashes, stored, admin>>

\* check_rate_limit: <<what it returns, sent_count after it, whether an hour
\* has passed since start_time after it>>.
CheckRateLimit(sent_count, hourUp) ==
    IF ~hourUp THEN <<sent_count < MaxEmailsPerHour, sent_count, FALSE>>
    ELSE <<TRUE, 0, FALSE>>

\* A commit that writes the sent event over the events on record.
FlushEventsReplace(dirty, bounced) ==
    [c \in CT |->
        IF c \in dirty THEN [NoEvents EXCEPT !["sent"] = 1] ELSE events[c]]

\* What a commit of the dispatcher's session does to the tables: for every
\* target it marked, the sent event is inserted, status and sent_at are written;
\* for every target whose pass raised, the bounced event is inserted.
FlushEvents(dirty, bounced) ==
    [c \in CT |->
        [t \in EventTypes |->
            IF t = "sent" /\ c \in dirty THEN events[c][t] + 1
            ELSE IF t = "bounced" /\ c \in bounced THEN events[c][t] + 1
            ELSE events[c][t]]]

\* A commit that leaves the status column out.
FlushStatusDropped(dirty) == ctStatus

FlushStatus(dirty) ==
    [c \in CT |-> IF c \in dirty THEN "sent" ELSE ctStatus[c]]

FlushSentAt(dirty) ==
    [c \in CT |-> IF c \in dirty THEN sentAt[c] + 1 ELSE sentAt[c]]

\* A loop that waits for the next window when the budget is used up.
SendsOnlyWithin(within) == within

\* "if not self.check_rate_limit(): ... time.sleep(60)": whatever the check
\* returned, the pass goes on to send_email_to_target, after a minute's sleep
\* when it returned False.
SendsAfterCheck(within) == TRUE

\* A loop that a failed pass ends.
AfterItemAbort(last, ok) == IF last \/ ~ok THEN "final" ELSE "loop"

\* Where the thread stands after a pass: the for statement takes the next
\* target whatever the pass did, and leaves the loop after the last one.
AfterItem(last, ok) == IF last THEN "final" ELSE "loop"

\* One pass of the loop of send_campaign_emails: the rate limit is consulted
\* (over budget, the thread sleeps a minute and goes on), the mail is handed to
\* the mail capability, a success is recorded in the session (a failure only
\* counted), and every CommitEvery-th pass commits.
RunItem(u) ==
    /\ run[u].pc = "loop"
    /\ LET c == run[u].list[run[u].i]
           rate == CheckRateLimit(run[u].sent_count, run[u].hourUp)
           last == run[u].i = Len(run[u].list)
       IN /\ SendsAfterCheck(rate[1])
          /\ \E ok \in BOOLEAN :
           LET dirty == IF ok THEN run[u].dirty \cup {c} ELSE run[u].dirty
               commit == run[u].i % CommitEvery = 0
           IN /\ mailed' = [mailed EXCEPT ![c] = IF ok THEN @ + 1 ELSE @]
              /\ run' = [run EXCEPT
                    ![u].i = @ + 1,
                    ![u].pc = AfterItem(last, ok),
                    ![u].success = IF ok THEN @ + 1 ELSE @,
                    ![u].errors = IF ok THEN @ ELSE @ + 1,
                    ![u].sent_count = IF ok THEN rate[2] + 1 ELSE rate[2],
                    ![u].hourUp = rate[3],
                    ![u].dirty = IF commit THEN {} ELSE dirty,
                    ![u].bounced = IF commit THEN {} ELSE @]
              /\ IF commit
                 THEN /\ events' = FlushEvents(dirty, run[u].bounced)
                      /\ ctStatus' = FlushStatus(dirty)
                      /\ sentAt' = FlushSentAt(dirty)
                 ELSE UNCHANGED <<events, ctStatus, sentAt>>
    /\ UNCHANGED <<campaign, rl, req, sreq, crashes, stored, admin>>

\* The bounced events on record and in the sessions of the dispatcher threads,
\* of the CampaignTargets from index c on.
RECURSIVE BouncedFrom(_)
BouncedFrom(c) ==
    IF c > NumCT THEN 0
    ELSE events[c]["bounced"]
         + Cardinality({v \in Run : c \in run[v].bounced})
         + BouncedFrom(c + 1)

\* A pass of the loop in which an exception escapes send_email_to_target (the
\* Target row of the CampaignTarget cannot be loaded, so that the except
\* clause of send_email_to_target itself raises on target.email): "except
\* Exception" of the loop counts an error and log_error_event puts a bounced
\* event into the session. No mail is handed over and the commit test of the
\* pass is skipped.
RunItemRaise(u) ==
    /\ run[u].pc = "loop"
    /\ BouncedFrom(1) < MaxRaises
    /\ LET c == run[u].list[run[u].i]
           rate == CheckRateLimit(run[u].sent_count, run[u].hourUp)
           last == run[u].i = Len(run[u].list)
       IN /\ SendsAfterCheck(rate[1])
          /\ run' = [run EXCEPT
                ![u].i = @ + 1,
                ![u].pc = AfterItem(last, FALSE),
                ![u].errors = @ + 1,
                ![u].sent_count = rate[2],
                ![u].hourUp = rate[3],
                ![u].bounced = @ \cup {c}]
    /\ UNCHANGED <<campaign, ctStatus, sentAt, events, mailed, rl, req, sreq, crashes, stored, admin>>

\* An hour passes since the sender's start_time.
Tick(u) ==
    /\ run[u].pc = "loop"
    /\ ~run[u].hourUp
    /\ run' = [run EXCEPT ![u].hourUp = TRUE]
    /\ UNCHANGED <<campaign, ctStatus, sentAt, events, mailed, rl, req, sreq, crashes, stored, admin>>

\* "Final commit"
RunFinalCommit(u) ==
    /\ run[u].pc = "final"
    /\ events' = FlushEvents(run[u].dirty, run[u].bounced)
    /\ ctStatus' = FlushStatus(run[u].dirty)
    /\ sentAt' = FlushSentAt(run[u].dirty)
    /\ run' = [run EXCEPT ![u].pc = "complete", ![u].dirty = {}, ![u].bounced = {}]
    /\ UNCHANGED <<campaign, mailed, rl, req, sreq, crashes, stored, admin>>

\* "Update campaign status if all emails processed": with no target left
\* pending the campaign is marked completed in the session; the commit that
\* persists it is the one log_audit makes. log_audit reads current_user and
\* request, which the thread has only under a pushed context: without one it
\* raises and the thread dies with the change unsaved.
RunComplete(u) ==
    /\ run[u].pc = "complete"
    /\ LET remaining == Cardinality({c \in CT : ctStatus[c] = "pending"})
           done == /\ run[u].success + run[u].errors = Len(run[u].list)
                   /\ remaining = 0
       IN \E audited \in BOOLEAN :
           campaign' = IF done /\ audited
                       THEN [campaign EXCEPT !.status = "completed"]
                       ELSE campaign
    /\ run' = [run EXCEPT ![u] = NoRun]
    /\ UNCHANGED <<ctStatus, sentAt, events, mailed, rl, req, sreq, crashes, stored, admin>>

\* pause_campaign: an active campaign is set to paused and committed.
Pause ==
    /\ campaign.status = "active"
    /\ campaign' = [campaign EXCEPT !.status = "paused"]
    /\ UNCHANGED <<ctStatus, sentAt, events, mailed, rl, req, sreq, run, crashes, stored, admin>>

\* complete_campaign: an active or paused campaign is set to completed and
\* committed.
Complete ==
    /\ campaign.status \in {"active", "paused"}
    /\ campaign' = [campaign EXCEPT !.status = "completed"]
    /\ UNCHANGED <<ctStatus, sentAt, events, mailed, rl, req, sreq, run, crashes, stored, admin>>

\* The server process dies and is started again: every handler and thread in
\* flight is gone with its session; the tables, the counter store and the
\* mail already handed over stay.
Crash ==
    /\ crashes < MaxCrashes
    /\ crashes' = crashes + 1
    /\ req' = [r \in Req |-> IdleReq]
    /\ sreq' = [s \in SendReq |-> IdleSend]
    /\ run' = [u \in Run |-> NoRun]
    /\ UNCHANGED <<campaign, ctStatus, sentAt, events, mailed, rl, stored, admin>>

\* --------------------------------- the counters of a run over a long list

\* send_campaign_emails, lines 39-43: total_targets = len(campaign_targets)
\* and both counters at zero.
CountStart ==
    /\ counts.pc = "none"
    /\ \E n \in 0..MaxTargets :
           counts' = [NoCounts EXCEPT !.pc = "loop", !.total_targets = n]
    /\ UNCHANGED <<core, analytics, export, enrolment, library, deletion>>

\* What one pass of the loop can meet: send_email_to_target returns True,
\* returns False, or something in the try block raises before it returned.
Outcomes == {"sent", "failed", "raised"}

\* One pass of the loop, lines 45-69, as far as the counters go.  The pass
\* counts its target as a success or as an error; when (i + 1) % 10 == 0 it
\* commits inside the same try block, and a commit that raises lands in the
\* except clause, which counts an error.
CountPass ==
    /\ counts.pc = "loop"
    /\ counts.i < counts.total_targets
    /\ \E outcome \in Outcomes, committed \in BOOLEAN :
           LET due == outcome # "raised" /\ (counts.i + 1) % CommitEvery = 0
               excepted == outcome = "raised" \/ (due /\ ~committed)
           IN  /\ ~due => committed
               /\ counts' = [counts EXCEPT
                      !.i = @ + 1,
                      !.success_count = @ + (IF outcome = "sent" THEN 1 ELSE 0),
                      !.error_count = @ + (IF outcome = "failed" THEN 1 ELSE 0)
                                        + (IF excepted THEN 1 ELSE 0)]
    /\ UNCHANGED <<core, analytics, export, enrolment, library, deletion>>

\* The loop is through: the run stands before its final commit and the
\* comparison of line 75.
CountEnd ==
    /\ counts.pc = "loop"
    /\ counts.i = counts.total_targets
    /\ counts' = [counts EXCEPT !.pc = "end"]
    /\ UNCHANGED <<core, analytics, export, enrolment, library, deletion>>

\* ----------------------------------------------------------- the analytics

\* The email_events rows of type t of the CampaignTargets from index c on.
RECURSIVE RowsFrom(_, _)
RowsFrom(c, t) ==
    IF c > NumCT THEN 0 ELSE events[c][t] + RowsFrom(c + 1, t)

\* EmailEvent.query.join(CampaignTarget).filter(..., event_type == t).count()
EventRows(t) == RowsFrom(1, t)

\* ... .distinct(EmailEvent.campaign_target_id).count(): Query.distinct passes
\* its column to DISTINCT ON on PostgreSQL only, where the count is that of the
\* CampaignTargets with an event of type t; every other backend (SQLite, the
\* default SQLALCHEMY_DATABASE_URI, among them) renders SELECT DISTINCT over all
\* columns of email_events, the primary key included, and the count is that of
\* the rows.
DistinctCount(distinctOn, t) ==
    IF distinctOn
    THEN Cardinality({c \in CT : events[c][t] > 0})
    ELSE EventRows(t)

\* round(n / d * 100, 2), in hundredths of a percent. With d below 32 no
\* quotient lies halfway between two hundredths, so that rounding half up and
\* Python's rounding agree.
Round2(n, d) == (2 * 10000 * n + d) \div (2 * d)

\* "(n / d * 100) if d > 0 else 0", rounded
Rate(n, d) == IF d > 0 THEN Round2(n, d) ELSE 0

\* calculate_campaign_metrics on a deployment whose backend has DISTINCT ON
\* (distinctOn) or has not.
calculate_campaign_metrics(distinctOn) ==
    LET total_targets == TargetCount
        sent_events == EventRows("sent")
        open_events == DistinctCount(distinctOn, "opened")
        click_events == DistinctCount(distinctOn, "clicked")
        submit_events == DistinctCount(distinctOn, "submitted")
    IN [total_targets |-> total_targets,
        emails_sent |-> sent_events,
        unique_opens |-> open_events,
        unique_clicks |-> click_events,
        unique_submissions |-> submit_events,
        open_rate |-> Rate(open_events, sent_events),
        click_rate |-> Rate(click_events, open_events),
        submission_rate |-> Rate(submit_events, click_events),
        delivery_rate |-> Rate(sent_events, total_targets)]

\* A page that keeps the metrics of its first call.
MetricsCached(prev, fresh) == IF prev.calls > 0 THEN prev.metrics ELSE fresh

\* "metrics = calculate_campaign_metrics(id)": what the page shows is what the
\* call returned.
MetricsShown(prev, fresh) == fresh

\* campaign_analytics: the metrics are computed from the tables and rendered.
CampaignAnalytics ==
    /\ report.calls < MaxReports
    /\ \E distinctOn \in BOOLEAN :
        report' = [calls |-> report.calls + 1,
                   metrics |-> MetricsShown(report, calculate_campaign_metrics(distinctOn))]
    /\ UNCHANGED <<core, export, enrolment, library, counting, deletion>>

\* -------------------------------------------------------------- the export

\* The event types with a column of their own in the export.
ExportedTypes == {"sent", "opened", "clicked", "submitted"}

\* EmailEvent.timestamp as the database returns it: seconds and microseconds,
\* without a time zone; up to the second MaxSec.
Stamps == {ts \in [sec : 1..MaxSec, us : {0, 500000}] : ts.sec < MaxSec \/ ts.us = 0}

\* t1 is earlier than t2.
Earlier(t1, t2) == t1.sec < t2.sec \/ (t1.sec = t2.sec /\ t1.us < t2.us)

\* The empty cell
Empty == <<>>

\* datetime.isoformat(): the date and time to the second, followed by the
\* microseconds only when they are not 0 (cells are modelled as the sequences
\* of the numbers their text holds).
isoformat(ts) == IF ts.us = 0 THEN <<ts.sec>> ELSE <<ts.sec, ts.us>>

\* datetime.fromisoformat of a cell that is not empty
fromisoformat(cell) ==
    IF Len(cell) = 1 THEN [sec |-> cell[1], us |-> 0]
    ELSE [sec |-> cell[1], us |-> cell[2]]

\* "events = {event.event_type: event for event in campaign_target.events}"
\* followed by events.get(t): of several events of a type the dict keeps the
\* last; 0 is None.
EventsGet(evs, t) ==
    LET at == {i \in 1..Len(evs) : evs[i].event_type = t}
    IN IF at = {} THEN 0 ELSE CHOOSE i \in at : \A j \in at : j <= i

\* "events.get(t).timestamp.isoformat() if events.get(t) else ''"
Cell(evs, t) ==
    IF EventsGet(evs, t) = 0 THEN Empty ELSE isoformat(evs[EventsGet(evs, t)].timestamp)

\* The row writer.writerow writes for CampaignTarget c (the columns of the
\* Target row other than the address are left out).
ExportRow(c, ct) ==
    [email |-> c,
     status |-> ct.status,
     sent |-> Cell(ct.events, "sent"),
     opened |-> Cell(ct.events, "opened"),
     clicked |-> Cell(ct.events, "clicked"),
     submitted |-> Cell(ct.events, "submitted"),
     first_open |-> Cell(ct.events, "opened"),
     first_click |-> Cell(ct.events, "clicked"),
     submission |-> Cell(ct.events, "submitted")]

\* generate_csv_export: one writerow per CampaignTarget read, in id order.
generate_csv_export ==
    /\ csv_content = <<>>
    /\ csv_content' = [c \in 1..NumCT |-> ExportRow(c, targets[c])]
    /\ UNCHANGED <<core, analytics, targets, enrolment, library, counting, deletion>>

\* ----------------------------------------------------------- the enrolment

TargetIds == 1..NumTargets
Enrol == 1..NumEnrol
TokenSpace == 1..NumTok

\* The campaign whose targets page is used, and TEST_CAMPAIGN.
TheCampaign == 1
TestCampaign == 2

\* The CampaignTarget rows the handlers in flight hold in their sessions.
RECURSIVE InFlightFrom(_)
InFlightFrom(e) ==
    IF e > NumEnrol THEN 0
    ELSE (IF enrol[e].pc \in {"row", "commit"} THEN Len(enrol[e].list) ELSE 0)
         + InFlightFrom(e + 1)

\* The rows still to come stay within MaxRows.
Room(n) == Len(assoc) + InFlightFrom(1) + n <= MaxRows

\* The tokens of a sequence of rows.
TokensOf(rows) == {rows[i].unique_token : i \in 1..Len(rows)}

\* A table without its unique index.
TokenAccepted(tok, taken) == TRUE

\* unique_token = db.Column(db.String(64), unique=True, nullable=False): the
\* INSERT of a row is refused when its token is taken.
TokenFree(tok, taken) == tok \notin taken

\* All tokens of the rows are free in the table and differ from each other.
RECURSIVE RowsFree(_, _)
RowsFree(rows, taken) ==
    IF rows = <<>> THEN TRUE
    ELSE /\ TokenFree(Head(rows).unique_token, taken)
         /\ RowsFree(Tail(rows), taken \cup {Head(rows).unique_token})

\* CampaignTarget.query.filter_by(campaign_id=..., target_id=...).first(), as
\* a session sees it: the rows committed and the rows it has added itself.
Existing(c, t, own) ==
    \/ \E i \in 1..Len(assoc) : assoc[i].campaign_id = c /\ assoc[i].target_id = t
    \/ \E i \in 1..Len(own) : own[i].campaign_id = c /\ own[i].target_id = t

\* manage_targets with a CSV file whose rows name the addresses of list: an
\* active campaign refuses; otherwise handle_csv_import parses the file.
ImportStart(e, list) ==
    /\ enrol[e].pc \in {"idle", "done"}
    /\ Room(Len(list))
    /\ IF campaign.status = "active"
       THEN enrol' = [enrol EXCEPT ![e] = [IdleEnrol EXCEPT !.pc = "done", !.resp = "refused"]]
       ELSE enrol' = [enrol EXCEPT ![e] = [IdleEnrol EXCEPT !.pc = "row", !.list = list, !.i = 1]]
    /\ UNCHANGED <<core, analytics, export, library, people, assoc, counting, deletion>>

\* manage_targets with the manual form: an active campaign refuses;
\* TargetForm.validate_email refuses an address that is in targets;
\* handle_manual_target goes on as the import of one row does.
ManualStart(e, t) ==
    /\ enrol[e].pc \in {"idle", "done"}
    /\ Room(1)
    /\ IF campaign.status = "active"
       THEN enrol' = [enrol EXCEPT ![e] = [IdleEnrol EXCEPT !.pc = "done", !.resp = "refused"]]
       ELSE IF t \in people
       THEN enrol' = [enrol EXCEPT ![e] = [IdleEnrol EXCEPT !.pc = "done", !.resp = "invalid"]]
       ELSE enrol' = [enrol EXCEPT ![e] = [IdleEnrol EXCEPT !.pc = "row", !.list = <<t>>, !.i = 1]]
    /\ UNCHANGED <<core, analytics, export, library, people, assoc, counting, deletion>>

\* One row of the loop of handle_csv_import (the body of
\* handle_manual_target): the Target is looked up and added to the session
\* when missing; the CampaignTarget of the pair is looked up and, when
\* missing, constructed (CampaignTarget.__init__ draws its token) and added.
ImportRow(e) ==
    /\ enrol[e].pc = "row"
    /\ LET t == enrol[e].list[enrol[e].i]
           last == enrol[e].i = Len(enrol[e].list)
           newT == IF t \in people THEN enrol[e].newT ELSE enrol[e].newT \cup {t}
       IN \E tok \in TokenSpace :
           enrol' = [enrol EXCEPT
                ![e].i = @ + 1,
                ![e].pc = IF last THEN "commit" ELSE "row",
                ![e].newT = newT,
                ![e].rows = IF Existing(TheCampaign, t, @) THEN @
                            ELSE Append(@, [campaign_id |-> TheCampaign, target_id |-> t,
                                            unique_token |-> tok])]
    /\ UNCHANGED <<core, analytics, export, library, people, assoc, counting, deletion>>

\* db.session.commit() of the handler: the rows of its session are inserted;
\* an address that has come into targets meanwhile (email is unique) or a
\* token that is taken makes the commit raise, and "except Exception" rolls
\* everything back.
ImportCommit(e) ==
    /\ enrol[e].pc = "commit"
    /\ IF enrol[e].newT \cap people = {} /\ RowsFree(enrol[e].rows, TokensOf(assoc))
       THEN /\ people' = people \cup enrol[e].newT
            /\ assoc' = assoc \o enrol[e].rows
            /\ enrol' = [enrol EXCEPT ![e] = [IdleEnrol EXCEPT !.pc = "done", !.resp = "ok"]]
       ELSE /\ enrol' = [enrol EXCEPT ![e] = [IdleEnrol EXCEPT !.pc = "done", !.resp = "error"]]
            /\ UNCHANGED <<people, assoc>>
    /\ UNCHANGED <<core, analytics, export, library, counting, deletion>>

\* send_test_email(email_address, template_id): the Target of the address is
\* created when missing, and a CampaignTarget of TEST_CAMPAIGN and the Target
\* is constructed with a fresh token and committed, whether or not the pair
\* has one already; a token that is taken makes the commit raise and the
\* function return False.
send_test_email(t) ==
    /\ Room(1)
    /\ people' = people \cup {t}
    /\ \E tok \in TokenSpace :
        assoc' = IF TokenFree(tok, TokensOf(assoc))
                 THEN Append(assoc, [campaign_id |-> TestCampaign, target_id |-> t,
                                     unique_token |-> tok])
                 ELSE assoc
    /\ UNCHANGED <<core, analytics, export, library, enrol, counting, deletion>>

\* ------------------------------------------------------------ the deletion

\* The campaigns row is in its table.
Present == removal.resp # "deleted"

\* The rows of a campaign_targets table that belong to campaign c.
RECURSIVE RowsOf(_, _)
RowsOf(rows, c) ==
    IF rows = <<>> THEN <<>>
    ELSE (IF Head(rows).campaign_id = c THEN <<Head(rows)>> ELSE <<>>)
         \o RowsOf(Tail(rows), c)

\* Some email_events row refers to a CampaignTarget of the campaign.
HasEvents == \E c \in CT, t \in EventTypes : events[c][t] > 0

\* delete_campaign up to "Prevent deletion of active campaigns": the campaign
\* row is read; an active campaign flashes a message and redirects.
DeleteCheck ==
    /\ Present
    /\ removal.pc \in {"idle", "done"}
    /\ removal' = IF campaign.status = "active"
                  THEN [pc |-> "done", resp |-> "refused"]
                  ELSE [pc |-> "commit", resp |-> "none"]
    /\ UNCHANGED <<core, analytics, export, enrolment, library, counting>>

\* "Delete related records": CampaignTarget.query.filter_by(...).delete() is
\* one DELETE on campaign_targets, the campaigns row follows and the session is
\* committed; email_events is not touched.  A backend that enforces the foreign
\* key of email_events.campaign_target_id (PostgreSQL; SQLite only with
\* PRAGMA foreign_keys=ON, which the program does not issue) refuses the
\* DELETE while events refer to the rows, and the request ends in an error;
\* any other backend deletes the rows.
DeleteCommit ==
    /\ removal.pc = "commit"
    /\ \E enforced \in BOOLEAN :
        IF enforced /\ HasEvents
        THEN /\ removal' = [pc |-> "done", resp |-> "error"]
             /\ UNCHANGED assoc
        ELSE /\ removal' = [pc |-> "done", resp |-> "deleted"]
             /\ assoc' = RowsOf(assoc, TestCampaign)
    /\ UNCHANGED <<core, analytics, export, library, counting, people, enrol>>

\* ----------------------------------------------------------- the templates

\* allowed_variables of TemplateForm.validate_html_content (and of
\* validate_template_variables)
AllowedVariables ==
    {"first_name", "last_name", "email", "department", "company", "click_url",
     "tracking_pixel", "tracking_number", "campaign_name", "sender_name",
     "sender_email"}

\* The keys of the dict prepare_template_variables returns
TemplateVariables ==
    {"first_name", "last_name", "email", "department", "company",
     "campaign_name", "sender_name", "sender_email", "tracking_number",
     "click_url", "tracking_pixel"}

\* The {{name}} placeholders the templates of the model are written with: a
\* text is modelled by the set re.findall(r'\{\{(\w+)\}\}', text) yields.
Names == {"first_name", "click_url", "password"}

\* TemplateForm.validate(): of the inline validators only
\* validate_html_content looks at placeholders, and it looks at those of
\* html_content; subject has DataRequired and Length(max=200).
TemplateFormValid(subject, html_content) ==
    html_content \subseteq AllowedVariables

\* The create and the edit page of a template: the TemplateForm is validated
\* and, when valid, its fields are written to the templates row.
SaveTemplate(subject, html_content) ==
    /\ TemplateFormValid(subject, html_content)
    /\ template' = [saved |-> TRUE, subject |-> subject, html_content |-> html_content]
    /\ UNCHANGED <<core, analytics, export, enrolment, outbox, counting, deletion>>

\* render_template_content: every "{{" + key + "}}" of the variables is
\* replaced by its value; any other placeholder stays as it is.
render_template_content(content, variables) == content \ variables

\* send_email_to_target: subject and html_content of the campaign's template
\* are rendered with the variables of the target and handed to the mail
\* capability.
SendRendered ==
    /\ template.saved
    /\ outbox' = outbox \cup
            {[subject |-> render_template_content(template.subject, TemplateVariables),
              html_content |-> render_template_content(template.html_content, TemplateVariables)]}
    /\ UNCHANGED <<core, analytics, export, enrolment, template, counting, deletion>>

\* ------------------------------------------------------ the specifications

\* The whole program: any number of tracking requests, send requests and
\* dispatcher threads interleave. Its state space at the bounds above is beyond
\* exhaustive search; the properties are checked on the parts below, each of
\* which is this program with some of its processes left out.
Track ==
    \/ \E r \in Req, k \in Kinds, t \in Tokens : RateGet(r, k, t)
    \/ \E r \in Req, k \in Kinds, t \in Tokens : RateUnavailable(r, k, t)
    \/ \E r \in Req : RateBump(r)
    \/ \E r \in Req : Reject(r)
    \/ \E k \in Kinds : Expire(k)
    \/ \E r \in Req : Lookup(r)
    \/ \E r \in Req : CheckExisting(r)
    \/ \E r \in Req : Commit(r)
    \/ \E r \in Req : Respond(r)
    \/ \E r \in Req : Fail(r)

Dispatch ==
    \/ \E s \in SendReq : SendCheck(s)
    \/ \E s \in SendReq : SendQueue(s)
    \/ \E s \in SendReq : SendCommit(s)
    \/ \E s \in SendReq : SendFail(s)
    \/ \E u \in Run : RunStart(u)
    \/ \E u \in Run : RunItem(u)
    \/ \E u \in Run : RunItemRaise(u)
    \/ \E u \in Run : Tick(u)
    \/ \E u \in Run : RunFinalCommit(u)
    \/ \E u \in Run : RunComplete(u)

Next == Track \/ Dispatch \/ Pause \/ Crash

Spec == Init /\ [][Next]_vars

\* The tokens the tracking requests of SpecTrack and SpecRate carry: the token
\* never issued and the token of CampaignTarget 1.
TrackTokens == {NoToken, 1}

\* The state a dispatcher run leaves behind: the campaign is active, every
\* CampaignTarget was either mailed (sent, with its sent event and sent_at) or
\* not (the mail capability failed: still pending), no thread is left.
SentEvents == [NoEvents EXCEPT !["sent"] = 1]

InitTrack ==
    /\ campaign = [status |-> "active", consent_verified |-> TRUE]
    /\ ctStatus \in [CT -> {"pending", "sent"}]
    /\ sentAt = [c \in CT |-> IF ctStatus[c] = "sent" THEN 1 ELSE 0]
    /\ events = [c \in CT |-> IF ctStatus[c] = "sent" THEN SentEvents ELSE NoEvents]
    /\ mailed = [c \in CT |-> IF ctStatus[c] = "sent" THEN 1 ELSE 0]
    /\ rl = [k \in Kinds |-> NoKey]
    /\ req = [r \in Req |-> IdleReq]
    /\ sreq = [s \in SendReq |-> IdleSend]
    /\ run = [u \in Run |-> NoRun]
    /\ crashes = 0
    /\ stored = {}
    /\ InitAdmin

\* Concurrent tracking requests after a dispatcher run, in a deployment whose
\* counter store is not reachable (rate_limit_check admits every request).
NextTrack ==
    \/ \E r \in Req, k \in Kinds, t \in TrackTokens : RateUnavailable(r, k, t)
    \/ \E r \in Req : Lookup(r)
    \/ \E r \in Req : CheckExisting(r)
    \/ \E r \in Req : Commit(r)
    \/ \E r \in Req : Respond(r)
    \/ \E r \in Req : Fail(r)
    \/ Crash

SpecTrack == InitTrack /\ [][NextTrack]_vars

\* Concurrent tracking requests with the rate limiter, after a dispatcher run
\* that mailed every target.
InitRate ==
    /\ InitTrack
    /\ \A c \in CT : ctStatus[c] = "sent"

NextRate ==
    \/ \E r \in Req, k \in Kinds, t \in TrackTokens : RateGet(r, k, t)
    \/ \E r \in Req, k \in Kinds, t \in TrackTokens : RateUnavailable(r, k, t)
    \/ \E r \in Req : RateBump(r)
    \/ \E r \in Req : Reject(r)
    \/ \E k \in Kinds : Expire(k)
    \/ \E r \in Req : Lookup(r)
    \/ \E r \in Req : CheckExisting(r)
    \/ \E r \in Req : Commit(r)
    \/ \E r \in Req : Respond(r)
    \/ \E r \in Req : Fail(r)

SpecRate == InitRate /\ [][NextRate]_vars

\* Send requests, dispatcher threads and crashes, with no tracking request,
\* where every Target row loads (no pass of a dispatcher loop raises).
NextDispatch ==
    \/ \E s \in SendReq : SendCheck(s)
    \/ \E s \in SendReq : SendQueue(s)
    \/ \E s \in SendReq : SendCommit(s)
    \/ \E s \in SendReq : SendFail(s)
    \/ \E u \in Run : RunStart(u)
    \/ \E u \in Run : RunItem(u)
    \/ \E u \in Run : Tick(u)
    \/ \E u \in Run : RunFinalCommit(u)
    \/ \E u \in Run : RunComplete(u)
    \/ Crash

SpecDispatch == Init /\ [][NextDispatch]_vars

\* The whole program with its requests and threads run one after the other:
\* a handler or a thread starts only when no other is under way.
Quiet ==
    /\ \A r \in Req : req[r].pc \in {"idle", "done"}
    /\ \A s \in SendReq : sreq[s].pc \in {"idle", "done"}
    /\ \A u \in Run : run[u].pc \in {"none", "queued"}

NextSeq ==
    \/ \E k \in Kinds, t \in TrackTokens : Quiet /\ RateUnavailable(1, k, t)
    \/ Lookup(1)
    \/ CheckExisting(1)
    \/ Commit(1)
    \/ Respond(1)
    \/ Fail(1)
    \/ Quiet /\ SendCheck(1)
    \/ SendQueue(1)
    \/ SendCommit(1)
    \/ SendFail(1)
    \/ \E u \in Run : Quiet /\ RunStart(u)
    \/ \E u \in Run : RunItem(u)
    \/ \E u \in Run : RunItemRaise(u)
    \/ \E u \in Run : Tick(u)
    \/ \E u \in Run : RunFinalCommit(u)
    \/ \E u \in Run : RunComplete(u)
    \/ Crash

SpecSeq == Init /\ [][NextSeq]_vars

\* One send request at a time and the dispatcher threads it starts (a second
\* one while the first still runs, when the first request failed to commit),
\* in a process that stays up, every
\* thread that was started going on to run: its own steps (the minute's sleep
\* of a pass over budget among them) are taken sooner or later. Nothing is
\* assumed about the hour of the budget window running out.
RunSteps(u) ==
    \/ RunStart(u)
    \/ RunItem(u)
    \/ RunItemRaise(u)
    \/ RunFinalCommit(u)
    \/ RunComplete(u)

NextLive ==
    \/ SendCheck(1)
    \/ SendQueue(1)
    \/ SendCommit(1)
    \/ SendFail(1)
    \/ \E u \in Run : RunSteps(u)
    \/ \E u \in Run : Tick(u)

SpecLive == Init /\ [][NextLive]_vars /\ \A u \in Run : WF_vars(RunSteps(u))

\* One send request at a time and its dispatcher threads, with the campaign
\* paused at any moment it is active.
NextPause ==
    \/ SendCheck(1)
    \/ SendQueue(1)
    \/ SendCommit(1)
    \/ SendFail(1)
    \/ \E u \in Run : RunStart(u)
    \/ \E u \in Run : RunItem(u)
    \/ \E u \in Run : RunItemRaise(u)
    \/ \E u \in Run : Tick(u)
    \/ \E u \in Run : RunFinalCommit(u)
    \/ \E u \in Run : RunComplete(u)
    \/ Pause

SpecPause == Init /\ [][NextPause]_vars

\* Concurrent submit requests with form payloads, after a dispatcher run, in
\* a deployment whose counter store is not reachable.
NextForm ==
    \/ \E r \in Req, t \in TrackTokens, f \in Forms : PostForm(r, t, f)
    \/ \E r \in Req : Lookup(r)
    \/ \E r \in Req : CheckExisting(r)
    \/ \E r \in Req : Commit(r)
    \/ \E r \in Req : Respond(r)
    \/ \E r \in Req : Fail(r)

SpecForm == InitTrack /\ [][NextForm]_vars

\* The analytics page called while tracking requests are under way, after a
\* dispatcher run that mailed every target, in a deployment whose counter
\* store is not reachable.
NextReport ==
    \/ \E r \in Req, k \in Kinds, t \in TrackTokens : RateUnavailable(r, k, t)
    \/ \E r \in Req : Lookup(r)
    \/ \E r \in Req : CheckExisting(r)
    \/ \E r \in Req : Commit(r)
    \/ \E r \in Req : Respond(r)
    \/ CampaignAnalytics

SpecReport == InitRate /\ [][NextReport]_vars

\* The event logs a CampaignTarget can have in an export: at most MaxLog
\* events of the exported types, in the order of their insertion, each later
\* than the one inserted before it.
EventLogs ==
    {evs \in UNION {[1..n -> [event_type : ExportedTypes, timestamp : Stamps]] : n \in 0..MaxLog} :
        \A i \in 1..(Len(evs) - 1) : Earlier(evs[i].timestamp, evs[i + 1].timestamp)}

\* The number of events of type t in evs.
Count(evs, t) == Cardinality({i \in 1..Len(evs) : evs[i].event_type = t})

\* The CampaignTargets the handlers and the dispatcher can leave: a sent event
\* comes with a status other than pending; the statuses sent, opened and
\* clicked are given to mailed targets, the latter two with such an event,
\* submitted to targets with a submitted event; a second sent event is that of
\* a second dispatcher run.
Recorded(ct) ==
    /\ ct.status = "pending" => Count(ct.events, "sent") = 0
    /\ ct.status \in {"sent", "opened", "clicked"} => Count(ct.events, "sent") > 0
    /\ Count(ct.events, "sent") <= 2
    /\ ct.status = "opened" => Count(ct.events, "opened") > 0
    /\ ct.status = "clicked" => Count(ct.events, "clicked") > 0
    /\ ct.status = "submitted" => Count(ct.events, "submitted") > 0

\* generate_csv_export applied to the CampaignTargets of a campaign that was
\* sent and tracked.
InitExport ==
    /\ campaign = [status |-> "active", consent_verified |-> TRUE]
    /\ ctStatus = [c \in CT |-> "pending"]
    /\ sentAt = [c \in CT |-> 0]
    /\ events = [c \in CT |-> NoEvents]
    /\ mailed = [c \in CT |-> 0]
    /\ rl = [k \in Kinds |-> NoKey]
    /\ req = [r \in Req |-> IdleReq]
    /\ sreq = [s \in SendReq |-> IdleSend]
    /\ run = [u \in Run |-> NoRun]
    /\ crashes = 0
    /\ stored = {}
    /\ report = NoReport
    /\ targets \in [CT -> {ct \in [status : Statuses, events : EventLogs] : Recorded(ct)}]
    /\ csv_content = <<>>
    /\ people = {}
    /\ assoc = <<>>
    /\ enrol = [e \in 1..NumEnrol |-> IdleEnrol]
    /\ template = NoTemplate
    /\ outbox = {}
    /\ counts = NoCounts
    /\ removal = NoRemoval

NextExport == generate_csv_export

SpecExport == InitExport /\ [][NextExport]_vars

\* The files a CSV import may carry: one or two rows.
ImportFiles == UNION {[1..n -> TargetIds] : n \in 1..2}

\* The targets page of a draft campaign and the test mails of a template, on
\* a platform that knows the first address from an earlier campaign.
InitEnrol ==
    /\ campaign = [status |-> "draft", consent_verified |-> TRUE]
    /\ ctStatus = [c \in CT |-> "pending"]
    /\ sentAt = [c \in CT |-> 0]
    /\ events = [c \in CT |-> NoEvents]
    /\ mailed = [c \in CT |-> 0]
    /\ rl = [k \in Kinds |-> NoKey]
    /\ req = [r \in Req |-> IdleReq]
    /\ sreq = [s \in SendReq |-> IdleSend]
    /\ run = [u \in Run |-> NoRun]
    /\ crashes = 0
    /\ stored = {}
    /\ report = NoReport
    /\ targets = [c \in CT |-> [status |-> "pending", events |-> <<>>]]
    /\ csv_content = <<>>
    /\ people = {1}
    /\ assoc = <<>>
    /\ enrol = [e \in Enrol |-> IdleEnrol]
    /\ template = NoTemplate
    /\ outbox = {}
    /\ counts = NoCounts
    /\ removal = NoRemoval

NextEnrol ==
    \/ \E e \in Enrol, list \in ImportFiles : ImportStart(e, list)
    \/ \E e \in Enrol, t \in TargetIds : ManualStart(e, t)
    \/ \E e \in Enrol : ImportRow(e)
    \/ \E e \in Enrol : ImportCommit(e)
    \/ \E t \in TargetIds : send_test_email(t)

SpecEnrol == InitEnrol /\ [][NextEnrol]_vars

\* Templates are created and edited, and mails rendered from the template on
\* record are sent.
NextTemplate ==
    \/ \E subject \in SUBSET Names, html_content \in SUBSET Names :
            SaveTemplate(subject, html_content)
    \/ SendRendered

SpecTemplate == Init /\ [][NextTemplate]_vars

\* Concurrent tracking requests for the tokens of different CampaignTargets,
\* after a dispatcher run that mailed every target, in a deployment whose
\* counter store is not reachable and whose database answers.
NextTokens ==
    \/ \E r \in Req, k \in Kinds, t \in CT : RateUnavailable(r, k, t)
    \/ \E r \in Req : Lookup(r)
    \/ \E r \in Req : CheckExisting(r)
    \/ \E r \in Req : Commit(r)
    \/ \E r \in Req : Respond(r)

SpecTokens == InitRate /\ [][NextTokens]_vars

\* Send requests, two at once, with the dispatcher threads they start, and
\* the pause and complete requests of the administrator at any moment, in a
\* process that stays up and whose Target rows all load.
NextSend ==
    \/ \E s \in SendReq : SendCheck(s)
    \/ \E s \in SendReq : SendQueue(s)
    \/ \E s \in SendReq : SendQueueFail(s)
    \/ \E s \in SendReq : SendCommit(s)
    \/ \E s \in SendReq : SendFail(s)
    \/ \E u \in Run : RunStart(u)
    \/ \E u \in Run : RunItem(u)
    \/ \E u \in Run : Tick(u)
    \/ \E u \in Run : RunFinalCommit(u)
    \/ \E u \in Run : RunComplete(u)
    \/ Pause
    \/ Complete

SpecSend == Init /\ [][NextSend]_vars

\* One send request with its dispatcher thread, one CSV import of one row and
\* the pause, complete and delete requests of the administrator, in a process
\* that stays up and whose Target rows all load.  A behaviour is followed up
\* to the deletion of the campaign: every request for a campaign that is gone
\* answers 404.
NextDelete ==
    \/ Present /\ SendCheck(1)
    \/ Present /\ SendQueue(1)
    \/ Present /\ SendCommit(1)
    \/ \E u \in Run : Present /\ RunStart(u)
    \/ \E u \in Run : Present /\ RunItem(u)
    \/ \E u \in Run : Present /\ Tick(u)
    \/ \E u \in Run : Present /\ RunFinalCommit(u)
    \/ \E u \in Run : Present /\ RunComplete(u)
    \/ Present /\ Pause
    \/ Present /\ Complete
    \/ \E t \in TargetIds : Present /\ ImportStart(1, <<t>>)
    \/ Present /\ ImportRow(1)
    \/ Present /\ ImportCommit(1)
    \/ DeleteCheck
    \/ DeleteCommit

SpecDelete == Init /\ [][NextDelete]_vars

\* One dispatcher run over a list of up to MaxTargets CampaignTargets, followed
\* by its counters.
NextCount == CountStart \/ CountPass \/ CountEnd

SpecCount == Init /\ [][NextCount]_vars

\* One tracking request at a time, for the token of any CampaignTarget, while
\* one send request and the dispatcher thread it starts are under way, in a
\* deployment whose counter store is not reachable and whose mail capability
\* and database answer: a recipient acts on a mail the dispatcher has handed
\* over but not yet committed.
NextOrder ==
    \/ \E k \in Kinds, t \in CT : RateUnavailable(1, k, t)
    \/ Lookup(1)
    \/ CheckExisting(1)
    \/ Commit(1)
    \/ Respond(1)
    \/ SendCheck(1)
    \/ SendQueue(1)
    \/ SendCommit(1)
    \/ RunStart(1)
    \/ RunItem(1)
    \/ RunFinalCommit(1)
    \/ RunComplete(1)

SpecOrder == Init /\ [][NextOrder]_vars

\* ------------------------------------------------------------- properties

\* The trigger kinds' event types.
TrackedTypes == {EventOf(k) : k \in Kinds}

\* Handler r takes a step of a request it is handling.
Steps(r) == req[r].pc \notin {"idle", "done"} /\ req'[r] # req[r]

\* C1: for every CampaignTarget and every type among opened, clicked and
\* submitted at most one event is on record, whatever the interleaving of the
\* trigger requests for its token.
C1_AtMostOneEventPerType ==
    \A c \in CT : \A t \in TrackedTypes : events[c][t] <= 1

\* C2: no step moves the status of a CampaignTarget backward in
\* pending < sent < opened < clicked < submitted.
C2_StatusNeverRegresses ==
    [][\A c \in CT : Rank(ctStatus'[c]) >= Rank(ctStatus[c])]_vars

\* C3: with the requests run one after the other, a trigger answered normally
\* leaves exactly one event of its kind, and a trigger that finds an event of
\* its kind on record (the second to N-th invocation) changes neither the
\* events nor the status: N invocations leave what one leaves.
C3_RepeatedTriggerIsIdempotent ==
    [][\A r \in Req :
        LET c == Resolve(req[r].tok)
            e == EventOf(req[r].kind)
        IN (Steps(r) /\ c # 0) =>
            /\ (req'[r].resp = "ok" => events'[c][e] = 1)
            /\ (events[c][e] > 0 => (events' = events /\ ctStatus' = ctStatus))]_vars

\* A second open request is under way for a target whose first open was
\* recorded and moved the status to opened.
C3_Witness ==
    \E r \in Req :
        /\ req[r].pc = "check"
        /\ req[r].kind = "open"
        /\ req[r].tok = 1
        /\ events[1]["opened"] = 1
        /\ ctStatus[1] = "opened"

\* C4: the mail capability accepts at most one mail per CampaignTarget and at
\* most one sent event per CampaignTarget is on record, across all dispatcher
\* runs and crashes.
C4_MailedAtMostOnce ==
    \A c \in CT : mailed[c] <= 1 /\ events[c]["sent"] <= 1

\* C5: at most one dispatcher run of the campaign is under way at any time.
C5_OneRunAtATime ==
    Cardinality({u \in Run : run[u].pc \notin {"none", "queued"}}) <= 1

C7_AckMeansSubmitted ==
    [][\A r \in Req :
        (/\ req[r].pc = "after"
         /\ req[r].kind = "submit"
         /\ req'[r].pc = "done"
         /\ req'[r].resp = "ok")
        => ctStatus'[Resolve(req[r].tok)] = "submitted"]_vars

\* C8: the event a trigger inserts and the status it assigns are persisted in
\* one step: a step that moves a status to opened, clicked or submitted inserts
\* the event of that type in the same step, a step of a handler that inserts
\* its event writes the status the handler assigned in the same step, and no
\* other step of a handler (a failure, a response) touches events or status.
C8_EventAndStatusTogether ==
    [][/\ \A c \in CT :
            (ctStatus'[c] # ctStatus[c] /\ ctStatus'[c] \in TrackedTypes)
            => events'[c][ctStatus'[c]] = events[c][ctStatus'[c]] + 1
       /\ \A r \in Req :
            LET c == Resolve(req[r].tok)
                e == EventOf(req[r].kind)
                new == NewStatus(req[r].kind, req[r].loaded)
            IN (Steps(r) /\ c # 0) =>
                IF events'[c][e] # events[c][e]
                THEN /\ events'[c][e] = events[c][e] + 1
                     /\ new # req[r].loaded => ctStatus'[c] = new
                ELSE events' = events /\ ctStatus' = ctStatus]_vars

\* An open was committed (event and status opened both there) and a request
\* that failed was rolled back.
C8_Witness ==
    /\ ctStatus[1] = "opened"
    /\ events[1]["opened"] = 1
    /\ \E r \in Req : req[r].resp = "500"

\* C9: a request with the token never issued changes no event and no status
\* and, unless it fails with an internal error, is answered not-found.
C9_UnknownTokenNotFound ==
    [][\A r \in Req :
        (Steps(r) /\ Resolve(req[r].tok) = 0) =>
            /\ events' = events
            /\ ctStatus' = ctStatus
            /\ (req'[r].pc = "done" => req'[r].resp \in {"404", "500"})]_vars

\* C10: token resolution is decided before rate limiting: no request with the
\* token never issued is turned away by the rate limiter.
C10_ResolveBeforeRateLimit ==
    \A r \in Req : req[r].pc = "limited" => Resolve(req[r].tok) # 0

\* C11: a trigger request turned away by the rate limiter appends no event and
\* changes no status (nor sent_at, nor the counter): neither the step that
\* finds it over the limit nor the step that answers 429 touches them.
C11_RejectedMutatesNothing ==
    [][\A r \in Req :
        (/\ req'[r] # req[r]
         /\ req[r].pc = "limited" \/ req'[r].pc = "limited")
        => /\ events' = events
           /\ ctStatus' = ctStatus
           /\ sentAt' = sentAt
           /\ rl' = rl]_vars

\* A request was turned away by the rate limiter and answered 429.
C11_Witness ==
    \E r \in Req : req[r].resp = "429"

\* C12: the requests of one kind admitted within one window never exceed the
\* budget. A key with an expiry was created by the first admitted request of
\* its window and counts one per request admitted since: it never exceeds the
\* limit.
C12_AdmittedWithinBudget ==
    \A k \in Kinds : rl[k].ttl => rl[k].n <= LimitOf(k)

\* The target a dispatcher thread in its loop is at.
ItemOf(u) == run[u].list[run[u].i]

\* C13: a pass whose mail succeeded puts the target among those the session
\* marks sent, and a commit persists the three changes of a marked target
\* together: any step that changes one of the sent event count, the status and
\* sent_at of a CampaignTarget adds exactly one sent event, writes status sent
\* and writes sent_at; no persisted state has a sent event without status sent
\* and sent_at, or the other way round.
C13_SentPersistedTogether ==
    [][/\ \A u \in Run :
            (run[u].pc = "loop" /\ run'[u].success = run[u].success + 1)
            => \/ ItemOf(u) \in run'[u].dirty
               \/ events'[ItemOf(u)]["sent"] = events[ItemOf(u)]["sent"] + 1
       /\ \A c \in CT :
            /\ (\/ events'[c]["sent"] # events[c]["sent"]
                \/ ctStatus'[c] # ctStatus[c]
                \/ sentAt'[c] # sentAt[c])
               => /\ events'[c]["sent"] = events[c]["sent"] + 1
                  /\ ctStatus'[c] = "sent"
                  /\ sentAt'[c] > sentAt[c]
            /\ (events'[c]["sent"] > 0) = (ctStatus'[c] = "sent")
            /\ (events'[c]["sent"] > 0) = (sentAt'[c] > 0)]_vars

\* A run that mailed CampaignTarget 1 has committed: one sent event, status
\* sent and sent_at are on record.
C13_Witness ==
    /\ mailed[1] = 1
    /\ events[1]["sent"] = 1
    /\ ctStatus[1] = "sent"
    /\ sentAt[1] = 1
    /\ \E u \in Run : run[u].pc = "complete" /\ run[u].success > 0

\* C14: every pass the dispatcher counts as an error (the mail capability
\* reported failure) records a bounced event for its target, in the session or
\* with the commit of the pass, marks nothing sent and leaves the target's
\* status, sent_at and sent events alone.
C14_FailureRecordsBounce ==
    [][\A u \in Run :
        (run[u].pc = "loop" /\ run'[u].errors = run[u].errors + 1)
        => /\ \/ ItemOf(u) \in run'[u].bounced
              \/ events'[ItemOf(u)]["bounced"] = events[ItemOf(u)]["bounced"] + 1
           /\ ItemOf(u) \notin run'[u].dirty
           /\ ctStatus'[ItemOf(u)] = ctStatus[ItemOf(u)]
           /\ sentAt'[ItemOf(u)] = sentAt[ItemOf(u)]
           /\ events'[ItemOf(u)]["sent"] = events[ItemOf(u)]["sent"]]_vars

\* C15: a failed pass does not end the run: a thread in its loop has attempted
\* every target before the one it is at, and a thread past its loop has
\* attempted every target of its list.
C15_FailureDoesNotAbort ==
    \A u \in Run :
        /\ run[u].pc = "loop" =>
            /\ run[u].i <= Len(run[u].list)
            /\ run[u].success + run[u].errors = run[u].i - 1
        /\ run[u].pc \in {"final", "complete"} =>
            run[u].success + run[u].errors = Len(run[u].list)

\* A run over both targets failed on the first (it was never mailed) and went
\* on to mail the second.
C15_Witness ==
    \E u \in Run :
        /\ run[u].pc = "complete"
        /\ Len(run[u].list) = 2
        /\ run[u].errors = 1
        /\ run[u].success = 1
        /\ mailed[1] = 0
        /\ mailed[2] = 1

\* C16: within one budget window a dispatcher thread performs at most
\* MAX_EMAILS_PER_HOUR successful sends: sent_count, the successful sends since
\* the window opened, never exceeds the budget.
C16_SendsWithinBudget ==
    \A u \in Run : run[u].sent_count <= MaxEmailsPerHour

\* C17: a dispatcher thread that was started attempts every target of its list
\* and terminates, also when the list is longer than the hourly budget.
C17_RunAttemptsAllAndEnds ==
    \A u \in Run :
        /\ (run[u].pc = "queued") ~>
                (/\ run[u].pc = "complete"
                 /\ run[u].success + run[u].errors = Len(run[u].list))
        /\ (run[u].pc = "complete") ~> (run[u].pc = "none")

\* A run over more targets than the hourly budget has attempted them all.
C17_Witness ==
    \E u \in Run :
        /\ run[u].pc = "complete"
        /\ Len(run[u].list) > MaxEmailsPerHour
        /\ run[u].success + run[u].errors = Len(run[u].list)

\* C18: a dispatcher run that ends with no CampaignTarget pending leaves the
\* campaign completed, one that ends with targets pending leaves the campaign
\* status as it was, and a completed campaign stays completed.
C18_CompletedWhenNonePending ==
    [][/\ \A u \in Run :
            (run[u].pc = "complete" /\ run'[u].pc = "none" /\ crashes' = crashes)
            => IF \A c \in CT : ctStatus[c] # "pending"
               THEN campaign'.status = "completed"
               ELSE campaign'.status = campaign.status
       /\ campaign.status = "completed" => campaign'.status = "completed"]_vars

\* C19: while the campaign is paused no dispatcher thread hands a mail to the
\* mail capability and no target leaves pending.
C19_PausedSendsNothing ==
    [][campaign.status = "paused" =>
        /\ mailed' = mailed
        /\ \A c \in CT : ctStatus[c] = "pending" => ctStatus'[c] = "pending"]_vars

\* C20: a send request made while the campaign is not draft, no
\* CampaignTarget is pending or the required consent is unverified is rejected
\* and changes nothing: no thread is started, no mail sent, no event appended,
\* campaign and target status stay.
C20_SendPreconditions ==
    [][\A s \in SendReq :
        (/\ sreq[s].pc \in {"idle", "done"}
         /\ sreq'[s] # sreq[s]
         /\ crashes' = crashes
         /\ \/ campaign.status # "draft"
            \/ PendingList = <<>>
            \/ (ConsentRequired /\ ~campaign.consent_verified))
        => /\ sreq'[s].resp = "rejected"
           /\ UNCHANGED <<campaign, ctStatus, sentAt, events, mailed, run>>]_vars

\* The event types of which CampaignTarget c has an event on record.
TypesOf(c) == {t \in EventTypes : events[c][t] > 0}

\* C21: the status of a CampaignTarget is a function of the set of event types
\* on record for it: two CampaignTargets with the same set of recorded event
\* types have the same status, in whatever order their events were recorded.
C21_StatusFunctionOfEventSet ==
    \A c, d \in CT : TypesOf(c) = TypesOf(d) => ctStatus[c] = ctStatus[d]

\* C28: an EmailEvent on record stays on record: no step of a tracking
\* handler or of a dispatcher thread removes or replaces an event, so the
\* events on record of every CampaignTarget and type never become fewer.
C28_EventsAppendOnly ==
    [][\A c \in CT, t \in EventTypes : events'[c][t] >= events[c][t]]_vars

\* An open was recorded for a CampaignTarget whose mail was not yet committed,
\* and the dispatcher's commit then added the sent event beside it.
C28_Witness ==
    /\ events[1]["opened"] = 1
    /\ events[1]["sent"] = 1
    /\ ctStatus[1] = "sent"

\* C30: an open or click trigger for a CampaignTarget that is still pending,
\* with no sent event on record, is accepted: no step of its handler answers
\* not-found, and its commit (the step from "commit" that is neither the
\* rollback of a database error nor a crash) appends the opened or clicked
\* event and leaves the status pending.
C30_PendingEngagementAccepted ==
    [][\A r \in Req :
        LET c == Resolve(req[r].tok)
            e == EventOf(req[r].kind)
        IN (/\ Steps(r)
            /\ c # 0
            /\ req[r].kind \in {"open", "click"}
            /\ ctStatus[c] = "pending"
            /\ events[c]["sent"] = 0) =>
            /\ req'[r].resp # "404"
            /\ (/\ req[r].pc = "commit"
                /\ req'[r].pc \in {"after", "done"}
                /\ req'[r].resp # "500") =>
                /\ events'[c][e] = events[c][e] + 1
                /\ ctStatus'[c] = "pending"]_vars

\* A click was recorded for a CampaignTarget that has no sent event and is
\* still pending.
C30_Witness ==
    /\ ctStatus[1] = "pending"
    /\ events[1]["sent"] = 0
    /\ events[1]["clicked"] = 1

\* C27: what a submit request persists does not depend on its form payload:
\* every step of a submit handler leaves the events, the statuses and the
\* stored metadata and audit rows that the same step would leave for any other
\* payload.
C27_PayloadNotPersisted ==
    [][\A r \in Req :
        LET c == Resolve(req[r].tok) IN
        (Steps(r) /\ req[r].kind = "submit" /\ c # 0) =>
            \A f \in Forms :
                /\ stored' \in {stored, stored \cup {SubmitMeta(c, f)},
                                stored \cup {SubmitAudit(c, f)}}
                /\ events' \in {events, [events EXCEPT ![c]["submitted"] = @ + 1]}
                /\ ctStatus' \in
                    {ctStatus,
                     [ctStatus EXCEPT ![c] = PersistedStatus("submit", req[r].loaded, @)]}]_vars

\* A submit request that carried credentials has committed its event.
C27_Witness ==
    \E r \in Req :
        /\ req[r].pc = "after"
        /\ req[r].kind = "submit"
        /\ req[r].form # NoForm
        /\ events[1]["submitted"] = 1
        /\ stored # {}

\* The metrics of the tables as they are: every count of opens, clicks and
\* submissions that of the CampaignTargets with such an event.
ExpectedMetrics ==
    LET unique(t) == Cardinality({c \in CT : events[c][t] > 0})
        ratio(n, d) == IF d = 0 THEN 0 ELSE Round2(n, d)
    IN [total_targets |-> Cardinality(CT),
        emails_sent |-> EventRows("sent"),
        unique_opens |-> unique("opened"),
        unique_clicks |-> unique("clicked"),
        unique_submissions |-> unique("submitted"),
        open_rate |-> ratio(unique("opened"), EventRows("sent")),
        click_rate |-> ratio(unique("clicked"), unique("opened")),
        submission_rate |-> ratio(unique("submitted"), unique("clicked")),
        delivery_rate |-> ratio(EventRows("sent"), Cardinality(CT))]

\* C22: a call of calculate_campaign_metrics returns the number of targets,
\* the number of sent events and the numbers of CampaignTargets with an opened,
\* a clicked and a submitted event (each counted once per type), with the four
\* rates over their denominators, 0 over a zero denominator, rounded to two
\* decimals: 6 of 10 is 60.0, 3 of 6 is 50.0, 1 of 3 is 33.33, 10 of 10 is 100.0.
C22_MetricsAreUniqueCounts ==
    [][report'.calls # report.calls =>
        /\ report'.metrics = ExpectedMetrics
        /\ Rate(6, 10) = 6000 /\ Rate(3, 6) = 5000
        /\ Rate(1, 3) = 3333 /\ Rate(10, 10) = 10000]_vars

\* C23: a call of the analytics page changes no table (events, statuses,
\* sent_at, campaign) and shows the metrics of the tables as they are at the
\* call, not those of an earlier call.
C23_MetricsReadOnlyAndLive ==
    [][report'.calls # report.calls =>
        /\ UNCHANGED <<campaign, ctStatus, sentAt, events, mailed, stored>>
        /\ \E distinctOn \in BOOLEAN :
            report'.metrics = calculate_campaign_metrics(distinctOn)]_vars

\* The page was called a second time and shows a click that is on record.
C23_Witness ==
    /\ report.calls = 2
    /\ report.metrics.unique_clicks = 1
    /\ events[1]["clicked"] = 1

\* The timestamps a reader of the export finds in a cell.
ReadBack(cell) == IF cell = Empty THEN {} ELSE {fromisoformat(cell)}

\* The timestamps of the events of type t on record for a CampaignTarget.
StampsOf(ct, t) ==
    {ct.events[i].timestamp : i \in {j \in 1..Len(ct.events) : ct.events[j].event_type = t}}

\* C24: generate_csv_export writes exactly one row per CampaignTarget; the
\* row's status is the target's status; each of its sent, opened, clicked and
\* submitted cells is empty when the target has no event of the type and else
\* holds the timestamp of the target's event of the type, so that reading the
\* rows back gives the statuses and the event timestamps on record.
C24_ExportReproducesLog ==
    csv_content # <<>> =>
        /\ Len(csv_content) = Cardinality(CT)
        /\ \A c \in CT :
            /\ Cardinality({i \in 1..Len(csv_content) : csv_content[i].email = c}) = 1
            /\ \A i \in 1..Len(csv_content) :
                csv_content[i].email = c =>
                    /\ csv_content[i].status = targets[c].status
                    /\ \A t \in ExportedTypes :
                        ReadBack(csv_content[i][t]) = StampsOf(targets[c], t)

\* C25: at most one CampaignTarget exists per pair of campaign and target:
\* neither a CSV import nor a manual add nor a test mail, nor two of them at a
\* time, adds a row for a pair that has one.
C25_OneAssociationPerPair ==
    \A i, j \in 1..Len(assoc) :
        (assoc[i].campaign_id = assoc[j].campaign_id
            /\ assoc[i].target_id = assoc[j].target_id) => i = j

\* C26: the unique_token values of the CampaignTargets are pairwise distinct
\* in every state, and no step changes the token of a CampaignTarget that
\* exists.
C26_TokensUniqueAndFixed ==
    /\ [](\A i, j \in 1..Len(assoc) :
            assoc[i].unique_token = assoc[j].unique_token => i = j)
    /\ [][/\ Len(assoc') >= Len(assoc)
          /\ \A i \in 1..Len(assoc) :
                assoc'[i].unique_token = assoc[i].unique_token]_vars

\* CampaignTargets exist, and a handler is about to commit a CampaignTarget
\* whose token is that of one of them.
C26_Witness ==
    /\ Len(assoc) >= 2
    /\ \E e \in Enrol :
        /\ enrol[e].pc = "commit"
        /\ \E i \in 1..Len(enrol[e].rows) :
            enrol[e].rows[i].unique_token \in TokensOf(assoc)

C31_OtherTargetsUntouched ==
    [][\A r \in Req :
        Steps(r) =>
            \A d \in CT :
                d # req[r].tok => (events'[d] = events[d] /\ ctStatus'[d] = ctStatus[d])]_vars

\* A request for the token of the second CampaignTarget is about to commit
\* while one for the token of the first has committed its event.
C31_Witness ==
    \E r, q \in Req :
        /\ req[r].tok = 1 /\ req[r].pc = "after"
        /\ events[1][EventOf(req[r].kind)] = 1
        /\ req[q].tok = 2 /\ req[q].pc = "commit"


\* C32: at the end of every dispatcher run success_count + error_count equals
\* the number of targets the run iterated over: each target is counted exactly
\* once, as a success or as an error.
C32_CountedOnce ==
    counts.pc = "end" =>
        counts.success_count + counts.error_count = counts.total_targets

\* The changes of Campaign.status the requests and the dispatcher are meant to
\* make.
AllowedChanges ==
    {<<"draft", "active">>, <<"active", "paused">>, <<"active", "completed">>,
     <<"paused", "completed">>}

\* C33: Campaign.status changes only along draft -> active, active -> paused
\* and active or paused -> completed: completed is never left and no campaign
\* returns to draft, in every interleaving of requests and dispatcher runs.
C33_StatusPath ==
    [][campaign'.status # campaign.status =>
          <<campaign.status, campaign'.status>> \in AllowedChanges]_vars

\* C34: a send request that has finished either both started a dispatcher run
\* and persisted status active, or did neither.
C34_RunAndActiveTogether ==
    \A s \in SendReq :
        sreq[s].pc = "done" => (sreq[s].started <=> sreq[s].resp = "ok")
\* C35: sent_at of a CampaignTarget is set exactly once, at its first successful
\* send: in every state sent_at is non-null if and only if a sent event exists
\* for the target, and once set it never changes.
C35_SentAtOnce ==
    /\ [](\A c \in CT : sentAt[c] # 0 <=> events[c]["sent"] > 0)
    /\ [][\A c \in CT : sentAt[c] # 0 => sentAt'[c] = sentAt[c]]_vars
\* The four rates of a metrics record, in hundredths of a percent.
RatesOf(m) == {m.delivery_rate, m.open_rate, m.click_rate, m.submission_rate}

\* C36: every rate returned by calculate_campaign_metrics (delivery_rate,
\* open_rate, click_rate, submission_rate) lies between 0 and 100.
C36_RatesWithin100 ==
    report.calls > 0 => \A x \in RatesOf(report.metrics) : 0 <= x /\ x <= 10000

\* C37: deleting a campaign removes its CampaignTargets and leaves no dangling
\* record: afterwards no EmailEvent refers to a CampaignTarget that no longer
\* exists.
C37_NoDanglingEvents ==
    ~Present => /\ RowsOf(assoc, TheCampaign) = <<>>
                /\ ~HasEvents

\* C38: while a campaign's status is active its set of CampaignTargets does not
\* change: no target can be added to it and the campaign cannot be deleted.
C38_ActiveMembersFixed ==
    [][(Present /\ campaign.status = "active") =>
          /\ RowsOf(assoc', TheCampaign) = RowsOf(assoc, TheCampaign)
          /\ Present']_vars
\* C39: a client rejected as rate-limited for a trigger kind is admitted again
\* once the window has elapsed: a counter never stays at or above its limit
\* forever.  Nothing but the expiry of its key lowers a counter, so that a
\* counter leaves its limit if and only if its key carries an expiry: every key
\* at or above its limit has one.
C39_LimitedKeyExpires ==
    \A k \in Kinds : rl[k].n >= LimitOf(k) => rl[k].ttl
====
